---- MODULE Spec2Model ----
(***************************************************************************)
(* agent-sandbox: the two profile compilers (generator.py's                *)
(* SandboxProfileGenerator and cli.py's generate_sandbox_profile) and the  *)
(* evaluation of the rule document they emit.                              *)
(*                                                                         *)
(* A document is the ordered list of the (allow|deny ...) forms of the     *)
(* emitted text, each tagged with the function that emitted it.  Paths and *)
(* pattern texts are strings, matched character by character.              *)
(***************************************************************************)
EXTENDS Integers, Sequences, FiniteSets, TLC

VARIABLES
    \* -- compilation and evaluation of a document ------------------------
    pc,         \* "idle" -> "generated" -> "probed"
    tool,       \* "none" | "generator" | "launcher": which compiler ran
    opts,       \* the options the compiler was constructed with
    doc,        \* the compiled document: a sequence of directives
    probePath,  \* the path of the access evaluated against doc
    probeOp,    \* the operation of that access
    decision,   \* "allow" | "deny" | "none"
    \* -- one run of the launcher process (cli.py main) --------------------
    lpc,        \* position of the launcher process
    argv,       \* sys.argv[1:]
    idx,        \* parse_args: its index i, the token being scanned (from 1)
    options,    \* parse_args: the options dictionary
    cmd_args,   \* the command to run
    profile,    \* main: work_dir, profile_content and profile_path
    artifact,   \* the temporary profile file on disk
    env,        \* what main read from the environment (which(), SHELL)
    engine,     \* the engine invocation: argument list and child outcome
    pending,    \* the exception (SystemExit included) in flight
    exit,       \* how the launcher process ended
    \* -- the shell fallback's command string ------------------------------
    qpc,        \* "idle" -> "quoted" -> "split"
    qargs,      \* the original argument list
    qstring,    \* the string handed to the shell after -c
    qwords,     \* the words the shell makes of it
    \* -- runs of the generator program (generator.py main) ----------------
    gpc,        \* position of the generator process
    grun,       \* which invocation is running: 1, then 2
    gargs,      \* the parsed arguments of each invocation
    gresponse,  \* the answer typed at the "Continue anyway?" prompt
    gstdout,    \* the document each invocation printed
    gfile,      \* the output file on disk
    gcheck,     \* validate_syntax: how the engine's check ran, and the verdict
    gexit,      \* the exit status of each invocation
    \* -- launcher processes running side by side on one host --------------
    cpc,        \* position of each launcher process
    cpath,      \* each process's profile_path
    cengine,    \* the file each process's engine invocation names
    tmpdir      \* the temporary directory: file name -> owner and content

docVars == <<pc, tool, opts, doc, probePath, probeOp, decision>>

launchVars ==
    <<lpc, argv, idx, options, cmd_args, profile, artifact, env, engine,
      pending, exit>>

quoteVars == <<qpc, qargs, qstring, qwords>>

genVars == <<gpc, grun, gargs, gresponse, gstdout, gfile, gcheck, gexit>>

concVars == <<cpc, cpath, cengine, tmpdir>>

vars == <<docVars, launchVars, quoteVars, genVars, concVars>>

(***************************************************************************)
(* The resting values of the launcher run and of the command string.       *)
(***************************************************************************)
\* parse_args: the options dictionary before any token is scanned; None is
\* written "" (both are false where the code tests them).
DefaultOptions ==
    [verbose |-> FALSE, mode |-> "balanced", agent |-> "", work_dir |-> "",
     dry_run |-> FALSE]

NoProfile == [work_dir |-> "", content |-> <<>>, path |-> ""]

NoArtifact == [exists |-> FALSE, content |-> <<>>, unlink |-> "none"]

NoEnv == [found |-> "unknown", shell |-> "unread"]

NoChild == [kind |-> "none", n |-> 0]

NoEngine == [cmd |-> <<>>, child |-> NoChild, returncode |-> 0]

NoExit == [by |-> "none", kind |-> "none", code |-> 0]

LaunchIdle ==
    /\ lpc = "off"
    /\ argv = <<>>
    /\ idx = 0
    /\ options = DefaultOptions
    /\ cmd_args = <<>>
    /\ profile = NoProfile
    /\ artifact = NoArtifact
    /\ env = NoEnv
    /\ engine = NoEngine
    /\ pending = "none"
    /\ exit = NoExit

QuoteIdle ==
    /\ qpc = "idle"
    /\ qargs = <<>>
    /\ qstring = ""
    /\ qwords = <<>>

\* The generator is run twice in a row on one host.
Runs == {1, 2}

NoGenArgs ==
    [output |-> "", mode |-> "balanced", work_dir |-> "", allowed_paths |-> <<>>,
     allow_git |-> FALSE, allow_rc_read |-> FALSE, allow_env_read |-> FALSE,
     dry_run |-> FALSE]

NoFile == [exists |-> FALSE, content |-> <<>>, mode |-> "none"]

NoCheck == [ran |-> FALSE, outcome |-> NoChild, result |-> "none"]

NoGenExit == [by |-> "none", code |-> 0]

GenIdle ==
    /\ gpc = "off"
    /\ grun = 0
    /\ gargs = [r \in Runs |-> NoGenArgs]
    /\ gresponse = ""
    /\ gstdout = [r \in Runs |-> <<>>]
    /\ gfile = NoFile
    /\ gcheck = NoCheck
    /\ gexit = [r \in Runs |-> NoGenExit]

\* Most launcher processes running side by side.
MaxProcs == 2

Procs == 1..MaxProcs

\* The names tempfile can give a file in the temporary directory.
TempNames ==
    {"/var/folders/zz/T/tmpq7w1x2.sb", "/var/folders/zz/T/tmp0a9b8c.sb",
     "/var/folders/zz/T/tmpm3n4p5.sb"}

NoTempFile == [exists |-> FALSE, owner |-> 0, content |-> 0]

ConcIdle ==
    /\ cpc = [p \in Procs |-> "off"]
    /\ cpath = [p \in Procs |-> ""]
    /\ cengine = [p \in Procs |-> ""]
    /\ tmpdir = [n \in TempNames |-> NoTempFile]

\* Longest list of -a/--allow paths explored.
MaxAllowed == 1

(***************************************************************************)
(* Environment facts.                                                      *)
(***************************************************************************)
Home == "/home/u"
Cwd == "/home/u/project"

(***************************************************************************)
(* Text helpers.                                                           *)
(***************************************************************************)
Ch(s, i) == SubSeq(s, i, i)

StartsWith(s, p) == Len(p) <= Len(s) /\ SubSeq(s, 1, Len(p)) = p

EndsWith(s, p) == Len(p) <= Len(s) /\ SubSeq(s, Len(s) - Len(p) + 1, Len(s)) = p

\* Path.expanduser(): a leading "~" component becomes the home directory.
ExpandUser(p) ==
    IF p = "~" THEN Home
    ELSE IF StartsWith(p, "~/") THEN Home \o SubSeq(p, 2, Len(p))
    ELSE p

\* Path.resolve() on the inputs explored here (no "..", no symlink, no
\* trailing slash): a relative path is joined to the current directory.
Resolve(p) ==
    IF StartsWith(p, "/") THEN p ELSE Cwd \o "/" \o p

(***************************************************************************)
(* Pattern / rule model.                                                   *)
(***************************************************************************)
AllOps == {"read", "write", "ioctl"}
RW == {"read", "write"}

Literal(t) == [kind |-> "literal", text |-> t]
Subpath(t) == [kind |-> "subpath", text |-> t]
Regex(t) == [kind |-> "regex", text |-> t]
Default == [kind |-> "default", text |-> ""]

Dir(layer, action, ops, patterns) ==
    [layer |-> layer, action |-> action, ops |-> ops, patterns |-> patterns]

(***************************************************************************)
(* The enforcement engine's matching.  A regex is searched for in the path *)
(* (it is anchored only where it says so: "$" at its end); the syntax      *)
(* covered is the one the two compilers emit: literal characters, "\c",    *)
(* ".", "[^/]", each optionally followed by "*", and a final "$".          *)
(***************************************************************************)
AtomWidth(re, j) ==
    IF Ch(re, j) = "\\" THEN 2
    ELSE IF Ch(re, j) = "[" THEN 4
    ELSE 1

AtomMatches(re, j, c) ==
    IF Ch(re, j) = "\\" THEN c = Ch(re, j + 1)
    ELSE IF Ch(re, j) = "[" THEN c # "/"
    ELSE IF Ch(re, j) = "." THEN TRUE
    ELSE c = Ch(re, j)

RECURSIVE MatchHere(_, _, _, _)
RECURSIVE MatchStar(_, _, _, _, _)

MatchHere(re, j, s, i) ==
    IF j > Len(re) THEN TRUE
    ELSE IF Ch(re, j) = "$" /\ j = Len(re) THEN i = Len(s) + 1
    ELSE LET w == AtomWidth(re, j)
         IN IF j + w <= Len(re) /\ Ch(re, j + w) = "*"
            THEN MatchStar(re, j, w, s, i)
            ELSE /\ i <= Len(s)
                 /\ AtomMatches(re, j, Ch(s, i))
                 /\ MatchHere(re, j + w, s, i + 1)

MatchStar(re, j, w, s, i) ==
    \/ MatchHere(re, j + w + 1, s, i)
    \/ /\ i <= Len(s)
       /\ AtomMatches(re, j, Ch(s, i))
       /\ MatchStar(re, j, w, s, i + 1)

RegexSearch(re, s) == \E i \in 1..(Len(s) + 1) : MatchHere(re, 1, s, i)

IsSubpath(root, p) ==
    \/ p = root
    \/ StartsWith(p, root \o "/")
    \/ root = "/" /\ StartsWith(p, "/")

Matches(pat, p) ==
    CASE pat.kind = "literal" -> p = pat.text
      [] pat.kind = "subpath" -> IsSubpath(pat.text, p)
      [] pat.kind = "regex" -> RegexSearch(pat.text, p)
      [] pat.kind = "default" -> TRUE

(***************************************************************************)
(* Pattern lists shared by the rule texts.                                 *)
(***************************************************************************)
RcNames ==
    <<".bashrc", ".bash_profile", ".bash_login", ".profile", ".zshrc",
      ".zshenv", ".zprofile", ".zlogin", ".tcshrc", ".cshrc">>

RcPatterns(home) ==
    [k \in 1..Len(RcNames) |-> Literal(home \o "/" \o RcNames[k])]

EnvPatterns(home) ==
    <<Literal(home \o "/.env"),
      Literal(home \o "/.envrc"),
      Regex(home \o "/\\.env\\..*$")>>

GitPatterns(home) ==
    <<Literal(home \o "/.gitconfig"),
      Literal(home \o "/.git-credentials"),
      Literal(home \o "/.netrc")>>

CloudPatterns(home) ==
    <<Subpath(home \o "/.aws"),
      Subpath(home \o "/.azure"),
      Subpath(home \o "/.gcloud"),
      Subpath(home \o "/.kube")>>

CredentialPatterns(home) ==
    <<Regex(home \o "/[^/]*credentials$"),
      Regex(home \o "/[^/]*password[^/]*$"),
      Regex(home \o "/\\..*credentials$"),
      Regex(home \o "/\\..*token$"),
      Regex(home \o "/\\..*secret$")>>

PycachePatterns(home) ==
    <<Regex(home \o "/\\.local/.*/__pycache__/.*"),
      Regex(home \o "/miniforge3/.*/__pycache__/.*"),
      Regex(home \o "/\\.pyenv/.*/__pycache__/.*"),
      Regex(".*/__pycache__/.*\\.pyc$")>>

TmpPatterns == <<Subpath("/tmp"), Subpath("/var/tmp"), Subpath("/private/tmp")>>

\* generator.py's private-key regexes: any depth below home.
GeneratorKeyPatterns(home) ==
    <<Regex(home \o "/.*\\.pem$"),
      Regex(home \o "/.*\\.key$"),
      Regex(home \o "/.*\\.p12$"),
      Regex(home \o "/.*\\.pfx$"),
      Regex(home \o "/.*_rsa$"),
      Regex(home \o "/.*_dsa$"),
      Regex(home \o "/.*_ecdsa$"),
      Regex(home \o "/.*_ed25519$")>>

(***************************************************************************)
(* generator.py: SandboxProfileGenerator.                                  *)
(***************************************************************************)
generate_base_rules == <<Dir("base", "allow", AllOps, <<Default>>)>>

\* The read/write split of one conditional group.
ConditionalGroup(layer, allowRead, patterns) ==
    IF allowRead
    THEN <<Dir(layer, "allow", {"read"}, patterns),
           Dir(layer, "deny", {"write"}, patterns)>>
    ELSE <<Dir(layer, "deny", RW, patterns)>>

generate_sensitive_protection_rules(home, allow_rc_read, allow_env_read, allow_git) ==
    <<Dir("sensitive", "deny", RW, <<Subpath(home \o "/.ssh")>>),
      Dir("sensitive", "deny", RW, CloudPatterns(home)),
      Dir("sensitive", "deny", RW, <<Subpath(home \o "/.gnupg")>>)>>
    \o ConditionalGroup("sensitive", allow_rc_read, RcPatterns(home))
    \o ConditionalGroup("sensitive", allow_env_read, EnvPatterns(home))
    \o ConditionalGroup("sensitive", allow_git, GitPatterns(home))
    \o <<Dir("sensitive", "deny", RW, GeneratorKeyPatterns(home)),
         Dir("sensitive", "deny", RW, CredentialPatterns(home))>>

\* Faulty variant (mutation analysis): the strict rules without the filesystem-root write deny.
generate_strict_rules_NoRootDeny(home, work_dir) ==
    <<Dir("mode", "allow", {"read"}, <<Subpath(home \o "/.local")>>),
      Dir("mode", "deny", {"write"}, <<Subpath(home)>>),
      Dir("mode", "allow", {"write"}, <<Subpath(work_dir)>>),
      Dir("mode", "allow", {"write"}, PycachePatterns(home)),
      Dir("mode", "allow", {"write"}, TmpPatterns)>>

generate_strict_rules(home, work_dir) ==
    <<Dir("mode", "allow", {"read"}, <<Subpath(home \o "/.local")>>),
      Dir("mode", "deny", {"write"}, <<Subpath(home), Subpath("/")>>),
      Dir("mode", "allow", {"write"}, <<Subpath(work_dir)>>),
      Dir("mode", "allow", {"write"}, PycachePatterns(home)),
      Dir("mode", "allow", {"write"}, TmpPatterns)>>

\* Faulty variant (mutation analysis): the balanced rules with the strict write deny.
generate_balanced_rules_RootDeny(home, work_dir) ==
    <<Dir("mode", "allow", {"read"}, <<Subpath(home \o "/.local")>>),
      Dir("mode", "deny", {"write"}, <<Subpath(home), Subpath("/")>>),
      Dir("mode", "allow", {"write"}, <<Subpath(work_dir)>>),
      Dir("mode", "allow", {"write"}, PycachePatterns(home)),
      Dir("mode", "allow", {"write"}, TmpPatterns)>>

generate_balanced_rules(home, work_dir) ==
    <<Dir("mode", "allow", {"read"}, <<Subpath(home \o "/.local")>>),
      Dir("mode", "deny", {"write"}, <<Subpath(home)>>),
      Dir("mode", "allow", {"write"}, <<Subpath(work_dir)>>),
      Dir("mode", "allow", {"write"}, PycachePatterns(home)),
      Dir("mode", "allow", {"write"}, TmpPatterns)>>

\* Faulty variant (mutation analysis): permissive rules that still deny writes to home.
generate_permissive_rules_DenyHome ==
    <<Dir("mode", "deny", {"write"}, <<Subpath(Home)>>)>>

generate_permissive_rules == <<>>

generate_custom_paths_rules(allowed_paths) ==
    [k \in 1..Len(allowed_paths) |->
        Dir("custom", "allow", RW, <<Subpath(allowed_paths[k])>>)]

\* __init__: work_dir and every allowed path go through expanduser().resolve().
GeneratorOptions(mode, work_dir, allowed_paths, allow_git, allow_rc_read, allow_env_read) ==
    [mode |-> mode,
     work_dir |-> Resolve(ExpandUser(work_dir)),
     allowed_paths |->
        [k \in 1..Len(allowed_paths) |-> Resolve(ExpandUser(allowed_paths[k]))],
     home |-> Home,
     allow_git |-> allow_git,
     allow_rc_read |-> allow_rc_read,
     allow_env_read |-> allow_env_read,
     agent |-> "",
     ssh_auth_sock |-> ""]

ModeRules(o) ==
    CASE o.mode = "strict" -> generate_strict_rules(o.home, o.work_dir)
      [] o.mode = "balanced" -> generate_balanced_rules(o.home, o.work_dir)
      [] o.mode = "permissive" -> generate_permissive_rules

\* Faulty variant (mutation analysis): the custom paths appended after the sensitive protection.
generate_CustomLast(o) ==
    generate_base_rules
    \o ModeRules(o)
    \o generate_sensitive_protection_rules(o.home, o.allow_rc_read,
                                           o.allow_env_read, o.allow_git)
    \o generate_custom_paths_rules(o.allowed_paths)

generate(o) ==
    generate_base_rules
    \o ModeRules(o)
    \o generate_custom_paths_rules(o.allowed_paths)
    \o generate_sensitive_protection_rules(o.home, o.allow_rc_read,
                                           o.allow_env_read, o.allow_git)

(***************************************************************************)
(* cli.py: the launcher's profile.                                         *)
(***************************************************************************)
\* cli.py's private-key regexes: the extension ones only directly in home.
LauncherKeyPatterns(home) ==
    <<Regex(home \o "/[^/]*\\.pem$"),
      Regex(home \o "/[^/]*-key\\.pem$"),
      Regex(home \o "/[^/]*_key\\.pem$"),
      Regex(home \o "/[^/]*\\.key$"),
      Regex(home \o "/[^/]*\\.p12$"),
      Regex(home \o "/[^/]*\\.pfx$"),
      Regex(home \o "/.*_rsa$"),
      Regex(home \o "/.*_dsa$"),
      Regex(home \o "/.*_ecdsa$"),
      Regex(home \o "/.*_ed25519$")>>

SshSafePatterns(home) ==
    <<Literal(home \o "/.ssh"),
      Literal(home \o "/.ssh/config"),
      Literal(home \o "/.ssh/known_hosts"),
      Literal(home \o "/.ssh/known_hosts.old"),
      Regex(home \o "/\\.ssh/.*\\.pub$")>>

get_common_rules(home, ssh_auth_sock) ==
    (IF ssh_auth_sock # ""
     THEN <<Dir("common", "allow", AllOps, <<Literal(ssh_auth_sock)>>)>>
     ELSE <<>>)
    \o <<Dir("common", "deny", RW, <<Subpath(home \o "/.ssh")>>),
         Dir("common", "allow", {"read"}, SshSafePatterns(home)),
         Dir("common", "deny", RW, CloudPatterns(home)),
         Dir("common", "deny", RW, <<Subpath(home \o "/.gnupg")>>),
         Dir("common", "deny", RW, EnvPatterns(home)),
         Dir("common", "deny", RW, LauncherKeyPatterns(home)),
         Dir("common", "deny", RW, CredentialPatterns(home))>>

\* Faulty variant (mutation analysis): the project rules without the write deny of the shell rc files.
get_project_rules_NoRcDeny(work_dir, home) ==
    <<Dir("project", "allow", {"read"}, <<Subpath(home \o "/.local")>>),
      Dir("project", "deny", {"write"}, <<Subpath(home)>>),
      Dir("project", "allow", {"write"}, <<Subpath(work_dir)>>),
      Dir("project", "allow", {"write"}, PycachePatterns(home)),
      Dir("project", "allow", {"write"}, TmpPatterns),
      Dir("project", "allow", {"write"},
          <<Subpath(home \o "/.cache"),
            Subpath(home \o "/.config"),
            Regex(home \o "/\\.zcompdump.*$")>>),
      Dir("project", "allow", {"read"}, RcPatterns(home)),
      Dir("project", "allow", {"read"}, GitPatterns(home)),
      Dir("project", "deny", {"write"}, GitPatterns(home))>>

get_project_rules(work_dir, home) ==
    <<Dir("project", "allow", {"read"}, <<Subpath(home \o "/.local")>>),
      Dir("project", "deny", {"write"}, <<Subpath(home)>>),
      Dir("project", "allow", {"write"}, <<Subpath(work_dir)>>),
      Dir("project", "allow", {"write"}, PycachePatterns(home)),
      Dir("project", "allow", {"write"}, TmpPatterns),
      Dir("project", "allow", {"write"},
          <<Subpath(home \o "/.cache"),
            Subpath(home \o "/.config"),
            Regex(home \o "/\\.zcompdump.*$")>>),
      Dir("project", "allow", {"read"}, RcPatterns(home)),
      Dir("project", "deny", {"write"}, RcPatterns(home)),
      Dir("project", "allow", {"read"}, GitPatterns(home)),
      Dir("project", "deny", {"write"}, GitPatterns(home))>>

get_agent_rules(agent, home) ==
    <<Dir("agent", "allow", {"write"},
          <<Literal(home \o "/.claude.json"),
            Subpath(home \o "/.claude"),
            Subpath(home \o "/.config/claude-code")>>),
      Dir("agent", "allow", {"write"}, <<Subpath(home \o "/.codex")>>)>>

generate_sandbox_profile(work_dir, home, agent, ssh_auth_sock) ==
    <<Dir("base", "allow", AllOps, <<Default>>)>>
    \o get_common_rules(home, ssh_auth_sock)
    \o get_project_rules(work_dir, home)
    \o get_agent_rules(agent, home)

\* main(): --work-dir goes through resolve() only (no expanduser), the
\* current directory stands in when it is absent; --mode is kept in the
\* options.
LauncherOptions(mode, work_dir, agent, ssh_auth_sock) ==
    [mode |-> mode,
     work_dir |-> IF work_dir # "" THEN Resolve(work_dir) ELSE Resolve(Cwd),
     allowed_paths |-> <<>>,
     home |-> Home,
     allow_git |-> FALSE,
     allow_rc_read |-> FALSE,
     allow_env_read |-> FALSE,
     agent |-> agent,
     ssh_auth_sock |-> ssh_auth_sock]

(***************************************************************************)
(* Inputs explored.                                                        *)
(***************************************************************************)
MODES == {"strict", "balanced", "permissive"}

\* -w/--work-dir values: an ordinary project, home itself ("~" and spelled
\* out), the filesystem root, a relative directory, and none ("").
WorkDirArgs == {"/home/u/project", "/home/u", "~", "/", "sub", ""}

\* -a/--allow values: home (an ancestor of ~/.ssh) and a directory outside it.
AllowedArgs == {"~", "/opt/data"}

AllowedLists == UNION {[1..n -> AllowedArgs] : n \in 0..MaxAllowed}

Agents == {"", "claude", "codex"}

SockValues == {"", "/private/tmp/agent.sock", "/home/u/.ssh/agent.sock"}

RcPaths == {Home \o "/" \o RcNames[k] : k \in 1..Len(RcNames)}

EnvPaths == {"/home/u/.env", "/home/u/.envrc", "/home/u/.env.local",
             "/home/u/.env.secret"}

GitPaths == {"/home/u/.gitconfig", "/home/u/.git-credentials", "/home/u/.netrc"}

SshPaths ==
    {"/home/u/.ssh", "/home/u/.ssh/id_rsa", "/home/u/.ssh/id_ed25519",
     "/home/u/.ssh/test_key", "/home/u/.ssh/config", "/home/u/.ssh/known_hosts",
     "/home/u/.ssh/known_hosts.old", "/home/u/.ssh/id_rsa.pub",
     "/home/u/.ssh/agent.sock", "/home/u/.ssh/__pycache__/m.pyc",
     "/home/u/.ssh/home/u/.env.x"}

CloudPaths ==
    {"/home/u/.aws/credentials", "/home/u/.aws/test_file",
     "/home/u/.azure/credentials", "/home/u/.gcloud/credentials.db",
     "/home/u/.kube/config", "/home/u/.gnupg/private-keys-v1.d/test.key",
     "/home/u/.gnupg/test_file"}

KeyPaths ==
    {"/home/u/server.pem", "/home/u/tls.key", "/home/u/certs/site.key",
     "/home/u/a.p12",
     "/home/u/a.pfx", "/home/u/project/deploy_rsa", "/home/u/id_ecdsa",
     "/home/u/aws_credentials", "/home/u/my_password.txt",
     "/home/u/.api_token", "/home/u/.client_secret"}

PlainPaths ==
    {"/home/u", "/home/u/notes.txt", "/home/u/notpem.txt",
     "/home/u/project", "/home/u/project/main.py", "/home/u/project/sub/x.txt",
     "/home/u/.local/bin/tool", "/home/u/.local/lib/__pycache__/m.pyc",
     "/home/u/lib/__pycache__/m.pyc", "/usr/lib/__pycache__/m.pyc",
     "/home/u/.cache/x", "/home/u/.config/claude-code/s.json",
     "/home/u/.claude.json", "/home/u/.codex/c", "/home/u/.zcompdump-host",
     "/home/user2/x", "/tmp/x", "/tmpfoo", "/var/tmp/x", "/private/tmp/x",
     "/private/tmp/agent.sock", "/etc/hosts", "/opt/data/f", "/"}

ProbePaths ==
    RcPaths \cup EnvPaths \cup GitPaths \cup SshPaths \cup CloudPaths
    \cup KeyPaths \cup PlainPaths

(***************************************************************************)
(* The engine's decision.  The matches of every pattern the compilers can  *)
(* emit against every explored path are tabulated once (MatchTable) and    *)
(* looked up; Matches decides the pairs outside the table.                 *)
(***************************************************************************)
AllOptions ==
    {GeneratorOptions(mode, work_dir, allowed_paths, allow_git, allow_rc_read,
                      allow_env_read) :
        mode \in MODES, work_dir \in WorkDirArgs \ {""},
        allowed_paths \in AllowedLists, allow_git \in BOOLEAN,
        allow_rc_read \in BOOLEAN, allow_env_read \in BOOLEAN}
    \cup
    {LauncherOptions(mode, work_dir, agent, ssh_auth_sock) :
        mode \in MODES, work_dir \in WorkDirArgs, agent \in Agents,
        ssh_auth_sock \in SockValues}

PatternsOf(d) ==
    UNION {{d[i].patterns[k] : k \in 1..Len(d[i].patterns)} : i \in 1..Len(d)}

KnownPatterns ==
    UNION {PatternsOf(generate(o))
           \cup PatternsOf(generate_sandbox_profile(o.work_dir, o.home, o.agent,
                                                    o.ssh_auth_sock)) :
           o \in AllOptions}

MatchTable == [pat \in KnownPatterns |-> {p \in ProbePaths : Matches(pat, p)}]

PathMatches(pat, p) ==
    IF pat \in KnownPatterns /\ p \in ProbePaths
    THEN p \in MatchTable[pat]
    ELSE Matches(pat, p)

DirMatches(d, p, op) ==
    /\ op \in d.ops
    /\ \E k \in 1..Len(d.patterns) : PathMatches(d.patterns[k], p)

\* Directives are evaluated in declaration order and the later one wins:
\* the decision is the action of the last directive matching the access.
RECURSIVE DecideFrom(_, _, _, _)
DecideFrom(d, i, p, op) ==
    IF i = 0 THEN "deny"
    ELSE IF DirMatches(d[i], p, op) THEN d[i].action
    ELSE DecideFrom(d, i - 1, p, op)

Decide(d, p, op) == DecideFrom(d, Len(d), p, op)

(***************************************************************************)
(* The state machine: one compilation, then one access evaluated against   *)
(* the document by the engine.                                             *)
(***************************************************************************)
NoOptions == LauncherOptions("balanced", "", "", "")

DocIdle ==
    /\ pc = "idle"
    /\ tool = "none"
    /\ opts = NoOptions
    /\ doc = <<>>
    /\ probePath = ""
    /\ probeOp = "none"
    /\ decision = "none"

Init == DocIdle /\ LaunchIdle /\ QuoteIdle /\ GenIdle /\ ConcIdle

\* generator.py main(): build the generator from the options, generate().
GeneratorGenerate ==
    /\ pc = "idle"
    /\ \E mode \in MODES, work_dir \in WorkDirArgs \ {""},
          allowed_paths \in AllowedLists,
          allow_git \in BOOLEAN, allow_rc_read \in BOOLEAN,
          allow_env_read \in BOOLEAN :
          LET o == GeneratorOptions(mode, work_dir, allowed_paths,
                                    allow_git, allow_rc_read, allow_env_read)
          IN /\ opts' = o
             /\ doc' = generate(o)
    /\ tool' = "generator"
    /\ pc' = "generated"
    /\ UNCHANGED <<probePath, probeOp, decision>>
    /\ UNCHANGED <<launchVars, quoteVars, genVars, concVars>>

\* cli.py main(): resolve the directories, generate_sandbox_profile().
LauncherGenerate ==
    /\ pc = "idle"
    /\ \E mode \in MODES, work_dir \in WorkDirArgs, agent \in Agents,
          ssh_auth_sock \in SockValues :
          LET o == LauncherOptions(mode, work_dir, agent, ssh_auth_sock)
          IN /\ opts' = o
             /\ doc' = generate_sandbox_profile(o.work_dir, o.home, o.agent,
                                                o.ssh_auth_sock)
    /\ tool' = "launcher"
    /\ pc' = "generated"
    /\ UNCHANGED <<probePath, probeOp, decision>>
    /\ UNCHANGED <<launchVars, quoteVars, genVars, concVars>>

\* The engine decides one access of the confined process.
Probe ==
    /\ pc = "generated"
    /\ \E p \in ProbePaths, op \in AllOps :
          /\ probePath' = p
          /\ probeOp' = op
          /\ decision' = Decide(doc, p, op)
    /\ pc' = "probed"
    /\ UNCHANGED <<tool, opts, doc>>
    /\ UNCHANGED <<launchVars, quoteVars, genVars, concVars>>

Next == GeneratorGenerate \/ LauncherGenerate \/ Probe

Spec == Init /\ [][Next]_vars

(***************************************************************************)
(* Vocabulary of the properties.                                           *)
(***************************************************************************)
Probed(t) == pc = "probed" /\ tool = t

AnyMatch(patterns, p) == \E k \in 1..Len(patterns) : PathMatches(patterns[k], p)

Below(root, p) == StartsWith(p, root \o "/")

SensitiveDirs ==
    {Home \o "/.ssh", Home \o "/.aws", Home \o "/.azure", Home \o "/.gcloud",
     Home \o "/.kube", Home \o "/.gnupg"}

InSensitiveDir(p) == \E d \in SensitiveDirs : IsSubpath(d, p)

SshCarveOut(p) ==
    \/ p \in {Home \o "/.ssh/config", Home \o "/.ssh/known_hosts",
              Home \o "/.ssh/known_hosts.old"}
    \/ Below(Home \o "/.ssh", p) /\ EndsWith(p, ".pub")

InTemp(p) == AnyMatch(TmpPatterns, p)

LayerMatches(d, layer, p) ==
    \E i \in 1..Len(d) :
        d[i].layer = layer /\ AnyMatch(d[i].patterns, p)

NoToggle == ~opts.allow_git /\ ~opts.allow_rc_read /\ ~opts.allow_env_read

(***************************************************************************)
(* C1. Generator always-deny: in every document generate() returns, read   *)
(* and write of every path in ~/.ssh, ~/.aws, ~/.azure, ~/.gcloud, ~/.kube *)
(* or ~/.gnupg, and of every path matching one of the private-key or       *)
(* credential-filename patterns, resolve to Deny.                          *)
(***************************************************************************)
C1_GeneratorAlwaysDeny ==
    (/\ Probed("generator")
     /\ probeOp \in RW
     /\ \/ InSensitiveDir(probePath)
        \/ AnyMatch(GeneratorKeyPatterns(Home), probePath)
        \/ AnyMatch(CredentialPatterns(Home), probePath))
    => decision = "deny"

(***************************************************************************)
(* C2. Launcher always-deny: in every document generate_sandbox_profile    *)
(* returns, read and write of every path below ~/.ssh other than config,   *)
(* known_hosts, known_hosts.old and *.pub, of every path in the cloud and  *)
(* GPG directories, and of every path matching a private-key or            *)
(* credential-filename pattern, resolve to Deny.                           *)
(***************************************************************************)
C2_LauncherAlwaysDeny ==
    (/\ Probed("launcher")
     /\ probeOp \in RW
     /\ \/ Below(Home \o "/.ssh", probePath) /\ ~SshCarveOut(probePath)
        \/ InSensitiveDir(probePath) /\ ~IsSubpath(Home \o "/.ssh", probePath)
        \/ AnyMatch(LauncherKeyPatterns(Home), probePath)
        \/ AnyMatch(CredentialPatterns(Home), probePath))
    => decision = "deny"

(***************************************************************************)
(* C3. Generator ordering: in the document generate() builds, every        *)
(* directive of the sensitive-protection layer comes strictly after every  *)
(* directive of the base, mode and custom-paths layers, and the document   *)
(* ends with the sensitive-protection layer.                               *)
(***************************************************************************)
C3_GeneratorSensitiveLast ==
    (tool = "generator") =>
        /\ doc[Len(doc)].layer = "sensitive"
        /\ \A i, j \in 1..Len(doc) :
              (doc[i].layer = "sensitive" /\ doc[j].layer # "sensitive") => j < i
        /\ \E i \in 1..Len(doc) : doc[i].layer = "base"

C3_Witness ==
    /\ pc = "generated"
    /\ tool = "generator"
    /\ opts.mode = "strict"
    /\ Len(opts.allowed_paths) > 0
    /\ \E i \in 1..Len(doc) : doc[i].layer = "custom"
    /\ \E i \in 1..Len(doc) : doc[i].layer = "mode"

(***************************************************************************)
(* C4. Launcher ordering: in the document generate_sandbox_profile builds, *)
(* the directives of get_common_rules come strictly after every directive  *)
(* of get_project_rules and get_agent_rules, and the document ends with    *)
(* them.                                                                   *)
(***************************************************************************)
C4_LauncherSensitiveLast ==
    (tool = "launcher") =>
        /\ doc[Len(doc)].layer = "common"
        /\ \A i, j \in 1..Len(doc) :
              (doc[i].layer = "common" /\ doc[j].layer \in {"project", "agent"})
              => j < i

(***************************************************************************)
(* C5. Shell rc files are never writable: in every document of either      *)
(* compiler, write access to each of the ten shell rc files in home        *)
(* resolves to Deny, also when the working directory or an extra allowed   *)
(* path is home itself.                                                    *)
(***************************************************************************)
C5_RcNeverWritable ==
    (pc = "probed" /\ probeOp = "write" /\ probePath \in RcPaths)
    => decision = "deny"

C5_Witness ==
    /\ Probed("launcher")
    /\ opts.work_dir = Home
    /\ probeOp = "write"
    /\ probePath = Home \o "/.zshrc"
    /\ decision = "deny"

(***************************************************************************)
(* C6. Toggle read/write split in the generator: for every file of the rc, *)
(* env and git groups, toggle false resolves read and write to Deny, and   *)
(* toggle true resolves read to Allow and write to Deny.                   *)
(***************************************************************************)
SplitHolds(toggle) ==
    /\ probeOp = "write" => decision = "deny"
    /\ probeOp = "read" => decision = (IF toggle THEN "allow" ELSE "deny")

C6_ToggleSplit ==
    (Probed("generator") /\ probeOp \in RW) =>
        /\ AnyMatch(RcPatterns(Home), probePath) => SplitHolds(opts.allow_rc_read)
        /\ AnyMatch(EnvPatterns(Home), probePath) => SplitHolds(opts.allow_env_read)
        /\ AnyMatch(GitPatterns(Home), probePath) => SplitHolds(opts.allow_git)

(***************************************************************************)
(* C7. With allow-git-read set, the generator's document resolves read of  *)
(* ~/.gitconfig and of ~/.git-credentials to Allow and write of both to    *)
(* Deny.                                                                   *)
(***************************************************************************)
C7_GitReadAllowed ==
    (/\ Probed("generator")
     /\ opts.allow_git
     /\ probePath \in {Home \o "/.gitconfig", Home \o "/.git-credentials"})
    => /\ probeOp = "read" => decision = "allow"
       /\ probeOp = "write" => decision = "deny"

(***************************************************************************)
(* C8. Strict write scope, as claimed: in the generator's strict document  *)
(* with no extra allowed path, write to every path that is neither in the  *)
(* working directory nor in a temp location resolves to Deny.              *)
(***************************************************************************)
StrictNoExtras ==
    /\ Probed("generator")
    /\ opts.mode = "strict"
    /\ opts.allowed_paths = <<>>
    /\ probeOp = "write"

C8_StrictWriteScope ==
    (/\ StrictNoExtras
     /\ ~IsSubpath(opts.work_dir, probePath)
     /\ ~InTemp(probePath))
    => decision = "deny"

(***************************************************************************)
(* C8, amended: in the generator's strict document with no extra allowed   *)
(* path, write to every path that is neither in the working directory, nor *)
(* in a temp location, nor matched by one of the four __pycache__ bytecode *)
(* patterns resolves to Deny, inside and outside home.                     *)
(***************************************************************************)
C8_StrictWriteScopeAmended ==
    (/\ StrictNoExtras
     /\ ~IsSubpath(opts.work_dir, probePath)
     /\ ~InTemp(probePath)
     /\ ~AnyMatch(PycachePatterns(Home), probePath))
    => decision = "deny"

C8_Witness ==
    /\ StrictNoExtras
    /\ opts.work_dir = "/home/u/project"
    /\ probePath = "/etc/hosts"
    /\ decision = "deny"

(***************************************************************************)
(* C9. Balanced scenario, as claimed: mode balanced, working directory     *)
(* /home/u/project, home /home/u, no toggle, no extra allowed path.  Write *)
(* is denied for every path in /home/u outside /home/u/project and the     *)
(* temp locations; read and write of ~/.ssh/id_rsa and of ~/.gitconfig and *)
(* read of ~/.env are denied; write stays allowed outside home where no    *)
(* sensitive pattern matches.                                              *)
(***************************************************************************)
BalancedScenario ==
    /\ Probed("generator")
    /\ opts.mode = "balanced"
    /\ opts.work_dir = "/home/u/project"
    /\ opts.home = "/home/u"
    /\ NoToggle
    /\ opts.allowed_paths = <<>>

BalancedFixedPoints ==
    /\ (probePath = "/home/u/.ssh/id_rsa" /\ probeOp \in RW) => decision = "deny"
    /\ (probePath = "/home/u/.env" /\ probeOp = "read") => decision = "deny"
    /\ (probePath = "/home/u/.gitconfig" /\ probeOp \in RW) => decision = "deny"
    /\ (/\ probeOp = "write"
        /\ ~IsSubpath("/home/u", probePath)
        /\ ~LayerMatches(doc, "sensitive", probePath))
       => decision = "allow"

C10_PermissiveScope ==
    (tool = "generator" /\ opts.mode = "permissive") =>
        /\ \A i \in 1..Len(doc) : doc[i].layer # "mode"
        /\ \A i \in 1..Len(doc) :
              (doc[i].action = "deny" /\ "write" \in doc[i].ops)
              => doc[i].layer = "sensitive"
        /\ (/\ pc = "probed"
            /\ probeOp \in RW
            /\ ~LayerMatches(doc, "sensitive", probePath))
           => decision = "allow"

C10_Witness ==
    /\ Probed("generator")
    /\ opts.mode = "permissive"
    /\ probeOp = "write"
    /\ probePath = "/home/u/notes.txt"
    /\ decision = "allow"

(***************************************************************************)
(* C11. The launcher's --mode selects the mode layer of its document:      *)
(* strict denies write on the filesystem root, balanced denies write under *)
(* home only, permissive has no directory-wide write deny.                 *)
(***************************************************************************)
DeniesWriteOn(d, root) ==
    \E k \in 1..Len(d) :
        /\ d[k].action = "deny"
        /\ "write" \in d[k].ops
        /\ \E n \in 1..Len(d[k].patterns) : d[k].patterns[n] = Subpath(root)

C11_LauncherModeSelects ==
    (tool = "launcher") =>
        /\ opts.mode = "strict" => DeniesWriteOn(doc, "/")
        /\ opts.mode = "balanced" =>
              DeniesWriteOn(doc, Home) /\ ~DeniesWriteOn(doc, "/")
        /\ opts.mode = "permissive" =>
              ~DeniesWriteOn(doc, Home) /\ ~DeniesWriteOn(doc, "/")
        /\ (/\ pc = "probed"
            /\ opts.mode = "strict"
            /\ probeOp = "write"
            /\ ~IsSubpath(opts.work_dir, probePath)
            /\ ~IsSubpath(Home, probePath)
            /\ ~InTemp(probePath)
            /\ ~AnyMatch(PycachePatterns(Home), probePath))
           => decision = "deny"

(***************************************************************************)
(* C12. SSH carve-out in the launcher's document: read of ~/.ssh/config,   *)
(* known_hosts, known_hosts.old and *.pub resolves to Allow and write to   *)
(* Deny; every other path below ~/.ssh resolves to Deny for read and       *)
(* write, for every working directory.                                     *)
(***************************************************************************)
C12_LauncherSshCarveOut ==
    (/\ Probed("launcher")
     /\ probeOp \in RW
     /\ Below(Home \o "/.ssh", probePath))
    => decision = (IF SshCarveOut(probePath) /\ probeOp = "read"
                   THEN "allow" ELSE "deny")

(***************************************************************************)
(* One run of the launcher (cli.py): parse_args, token by token.           *)
(***************************************************************************)
\* Longest sys.argv[1:] explored.
MaxArgv == 3

\* The tokens of sys.argv[1:]: the launcher's options, an option it does
\* not know, and three words that serve as option values and as commands
\* ("strict" is a valid mode, "claude" a known agent, "echo" neither).
ArgTokens ==
    {"--", "-h", "--help", "--verbose", "--mode", "--agent", "--work-dir",
     "--dry-run", "-x", "strict", "claude", "echo"}

ArgLists == UNION {[1..n -> ArgTokens] : n \in 0..MaxArgv}

ImplicitFlag == "--dangerously-skip-permissions"

known_agents == {"claude", "codex"}

\* Faulty variant (mutation analysis): every usage exit reports success.
PrintUsageExit_AlwaysZero(error_msg) == 0

\* print_usage: sys.exit(1 if error_msg else 0), help carries no message.
PrintUsageExit(error_msg) == IF error_msg # "" THEN 1 ELSE 0

\* Faulty variant (mutation analysis): the usage is printed and the scan
\* goes on at the same token.
print_usage_Returns(error_msg) ==
    /\ lpc' = lpc
    /\ exit' = [by |-> IF error_msg = "" THEN "help" ELSE "usage_error",
                kind |-> "code",
                code |-> PrintUsageExit(error_msg)]

print_usage(error_msg) ==
    /\ lpc' = "exited"
    /\ exit' = [by |-> IF error_msg = "" THEN "help" ELSE "usage_error",
                kind |-> "code",
                code |-> PrintUsageExit(error_msg)]

\* Faulty variant (mutation analysis): the slice starts one token late.
ArgsFrom_SkipOne(args, k) == SubSeq(args, k + 1, Len(args))

\* args[i:] with the module's 1-based index.
ArgsFrom(args, k) == SubSeq(args, k, Len(args))

\* Faulty variant (mutation analysis): the flag whatever the arguments.
AppendImplicitFlag_AnyLength(agent, cmd) ==
    IF agent = "claude" /\ Len(cmd) >= 1 THEN Append(cmd, ImplicitFlag) ELSE cmd

\* The special case at the end of parse_args.
AppendImplicitFlag(agent, cmd) ==
    IF agent = "claude" /\ Len(cmd) = 1 THEN Append(cmd, ImplicitFlag) ELSE cmd

afterParse == <<profile, artifact, env, engine, pending>>

LaunchInit ==
    /\ DocIdle
    /\ QuoteIdle
    /\ GenIdle
    /\ ConcIdle
    /\ lpc = "parse"
    /\ argv \in ArgLists
    /\ idx = 1
    /\ options = DefaultOptions
    /\ cmd_args = <<>>
    /\ profile = NoProfile
    /\ artifact = NoArtifact
    /\ env = NoEnv
    /\ engine = NoEngine
    /\ pending = "none"
    /\ exit = NoExit

Scanning == lpc = "parse" /\ idx <= Len(argv)

\* arg == '--': everything after it is the command.
ScanSeparator ==
    /\ Scanning
    /\ argv[idx] = "--"
    /\ cmd_args' = ArgsFrom(argv, idx + 1)
    /\ lpc' = "scanned"
    /\ UNCHANGED <<argv, idx, options, exit, afterParse, docVars, quoteVars, genVars, concVars>>

\* arg in ('--help', '-h')
ScanHelp ==
    /\ Scanning
    /\ argv[idx] \in {"--help", "-h"}
    /\ print_usage("")
    /\ UNCHANGED <<argv, idx, options, cmd_args, afterParse, docVars, quoteVars, genVars, concVars>>

\* --verbose and --dry-run set their option and move on by one.
ScanSwitch ==
    /\ Scanning
    /\ argv[idx] \in {"--verbose", "--dry-run"}
    /\ options' = IF argv[idx] = "--verbose"
                  THEN [options EXCEPT !.verbose = TRUE]
                  ELSE [options EXCEPT !.dry_run = TRUE]
    /\ idx' = idx + 1
    /\ UNCHANGED <<lpc, argv, cmd_args, exit, afterParse, docVars, quoteVars, genVars, concVars>>

\* --mode, --agent, --work-dir without a following token.
ScanMissingValue ==
    /\ Scanning
    /\ argv[idx] \in {"--mode", "--agent", "--work-dir"}
    /\ idx + 1 > Len(argv)
    /\ print_usage(argv[idx] \o " requires an argument")
    /\ UNCHANGED <<argv, idx, options, cmd_args, afterParse, docVars, quoteVars, genVars, concVars>>

\* --mode VALUE: stored, then validated.
ScanMode ==
    /\ Scanning
    /\ argv[idx] = "--mode"
    /\ idx + 1 <= Len(argv)
    /\ options' = [options EXCEPT !.mode = argv[idx + 1]]
    /\ IF argv[idx + 1] \notin MODES
       THEN print_usage("Invalid mode: " \o argv[idx + 1]) /\ idx' = idx
       ELSE idx' = idx + 2 /\ UNCHANGED <<lpc, exit>>
    /\ UNCHANGED <<argv, cmd_args, afterParse, docVars, quoteVars, genVars, concVars>>

\* --agent VALUE and --work-dir VALUE: stored as given.
ScanValue ==
    /\ Scanning
    /\ argv[idx] \in {"--agent", "--work-dir"}
    /\ idx + 1 <= Len(argv)
    /\ options' = IF argv[idx] = "--agent"
                  THEN [options EXCEPT !.agent = argv[idx + 1]]
                  ELSE [options EXCEPT !.work_dir = argv[idx + 1]]
    /\ idx' = idx + 2
    /\ UNCHANGED <<lpc, argv, cmd_args, exit, afterParse, docVars, quoteVars, genVars, concVars>>

KnownOptions ==
    {"--", "--help", "-h", "--verbose", "--mode", "--agent", "--work-dir",
     "--dry-run"}

\* arg.startswith('-'), none of the options above.
ScanUnknown ==
    /\ Scanning
    /\ argv[idx] \notin KnownOptions
    /\ StartsWith(argv[idx], "-")
    /\ print_usage("Unknown option: " \o argv[idx])
    /\ UNCHANGED <<argv, idx, options, cmd_args, afterParse, docVars, quoteVars, genVars, concVars>>

\* The first non-option token starts the command.
ScanCommand ==
    /\ Scanning
    /\ argv[idx] \notin KnownOptions
    /\ ~StartsWith(argv[idx], "-")
    /\ cmd_args' = ArgsFrom(argv, idx)
    /\ lpc' = "scanned"
    /\ UNCHANGED <<argv, idx, options, exit, afterParse, docVars, quoteVars, genVars, concVars>>

\* The loop's else branch: the tokens ran out, no command found.
ScanEnd ==
    /\ lpc = "parse"
    /\ idx > Len(argv)
    /\ cmd_args' = <<>>
    /\ lpc' = "scanned"
    /\ UNCHANGED <<argv, idx, options, exit, afterParse, docVars, quoteVars, genVars, concVars>>

\* After the loop: "if not cmd_args".
NoCommand ==
    /\ lpc = "scanned"
    /\ cmd_args = <<>>
    /\ print_usage("No command specified")
    /\ UNCHANGED <<argv, idx, options, cmd_args, afterParse, docVars, quoteVars, genVars, concVars>>

\* After the loop: agent detection, the implicit flag, return.
ParseReturn ==
    /\ lpc = "scanned"
    /\ cmd_args # <<>>
    /\ LET agent == IF options.agent = "" /\ cmd_args[1] \in known_agents
                    THEN cmd_args[1] ELSE options.agent
       IN /\ options' = [options EXCEPT !.agent = agent]
          /\ cmd_args' = AppendImplicitFlag(agent, cmd_args)
    /\ lpc' = "parsed"
    /\ UNCHANGED <<argv, idx, exit, afterParse, docVars, quoteVars, genVars, concVars>>

(***************************************************************************)
(* The shell fallback's command string: shlex.quote of every argument,     *)
(* joined by one space, and the words a POSIX shell makes of a string.     *)
(***************************************************************************)
\* shlex.quote leaves a string of these characters as it is:
\* [A-Za-z0-9_@%+=:,./-].
SafeChars ==
    {"a", "b", "c", "d", "e", "f", "g", "h", "i", "j", "k", "l", "m", "n",
     "o", "p", "q", "r", "s", "t", "u", "v", "w", "x", "y", "z", "A", "B",
     "C", "D", "E", "F", "G", "H", "I", "J", "K", "L", "M", "N", "O", "P",
     "Q", "R", "S", "T", "U", "V", "W", "X", "Y", "Z", "0", "1", "2", "3",
     "4", "5", "6", "7", "8", "9", "_", "@", "%", "+", "=", ":", ",", ".",
     "/", "-"}

AllSafe(s) == \A k \in 1..Len(s) : Ch(s, k) \in SafeChars

\* s.replace("'", "'\"'\"'"), from character k on.
RECURSIVE ReplaceQuotes(_, _)
ReplaceQuotes(s, k) ==
    IF k > Len(s) THEN ""
    ELSE (IF Ch(s, k) = "'" THEN "'\"'\"'" ELSE Ch(s, k))
         \o ReplaceQuotes(s, k + 1)

\* shlex.quote
Quote(s) ==
    IF s = "" THEN "''"
    ELSE IF AllSafe(s) THEN s
    ELSE "'" \o ReplaceQuotes(s, 1) \o "'"

RECURSIVE JoinFrom(_, _, _)
JoinFrom(words, k, sep) ==
    IF k > Len(words) THEN ""
    ELSE IF k = Len(words) THEN words[k]
    ELSE words[k] \o sep \o JoinFrom(words, k + 1, sep)

\* Faulty variant (mutation analysis): the arguments joined as they are.
CommandString_Unquoted(cmd) == JoinFrom(cmd, 1, " ")

\* ' '.join(shlex.quote(arg) for arg in cmd_args)
CommandString(cmd) ==
    JoinFrom([k \in 1..Len(cmd) |-> Quote(cmd[k])], 1, " ")

\* The words of a command string under the shell's quoting rules: blanks
\* separate words outside quotes; '...' keeps every character; "..." keeps
\* every character except that a backslash escapes $ " \ (and the
\* backquote, which no string explored here contains); a backslash
\* outside quotes escapes the next character.  mode is "plain", "single"
\* or "double"; started tells that a word is open (a quoted empty string
\* opens one); a quote left open ends with the string.
RECURSIVE SplitFrom(_, _, _, _, _, _)
SplitFrom(s, k, mode, cur, started, words) ==
    IF k > Len(s)
    THEN IF started THEN Append(words, cur) ELSE words
    ELSE LET c == Ch(s, k) IN
         IF mode = "single"
         THEN IF c = "'"
              THEN SplitFrom(s, k + 1, "plain", cur, TRUE, words)
              ELSE SplitFrom(s, k + 1, "single", cur \o c, TRUE, words)
         ELSE IF mode = "double"
         THEN IF c = "\""
              THEN SplitFrom(s, k + 1, "plain", cur, TRUE, words)
              ELSE IF c = "\\" /\ k < Len(s)
                      /\ Ch(s, k + 1) \in {"$", "\"", "\\"}
              THEN SplitFrom(s, k + 2, "double", cur \o Ch(s, k + 1), TRUE,
                             words)
              ELSE SplitFrom(s, k + 1, "double", cur \o c, TRUE, words)
         ELSE IF c = " "
              THEN SplitFrom(s, k + 1, "plain", "", FALSE,
                             IF started THEN Append(words, cur) ELSE words)
              ELSE IF c = "'"
              THEN SplitFrom(s, k + 1, "single", cur, TRUE, words)
              ELSE IF c = "\""
              THEN SplitFrom(s, k + 1, "double", cur, TRUE, words)
              ELSE IF c = "\\" /\ k < Len(s)
              THEN SplitFrom(s, k + 2, "plain", cur \o Ch(s, k + 1), TRUE,
                             words)
              ELSE SplitFrom(s, k + 1, "plain", cur \o c, TRUE, words)

ShellSplit(s) == SplitFrom(s, 1, "plain", "", FALSE, <<>>)

(***************************************************************************)
(* One run of the launcher (cli.py): main, from the parsed options to the  *)
(* end of the process.                                                     *)
(***************************************************************************)
\* The name tempfile gives the profile file.
TempPath == "/var/folders/zz/T/tmpq7w1x2.sb"

\* SSH_AUTH_SOCK as the launcher finds it during a run (the documents for
\* the other values are those of LauncherGenerate).
LaunchSocks == {"/private/tmp/agent.sock"}

\* An environment variable that is not set.
Unset == "<unset>"

\* SHELL as the launcher finds it.
ShellValues == {Unset, "/bin/zsh"}

\* os.environ.get(name, default)
environ_get(value, default) == IF value = Unset THEN default ELSE value

\* How the child can end: exit codes (kind "exit") and a fatal signal.
ChildOutcomes ==
    {[kind |-> "exit", n |-> 0], [kind |-> "exit", n |-> 3],
     [kind |-> "signal", n |-> 9]}

\* subprocess: returncode is the exit code, or -N for a child that signal
\* N ended.
ReturnCode(child) == IF child.kind = "signal" THEN 0 - child.n ELSE child.n

\* sys.exit(n): the process status is the low byte of n.
ExitStatus(n) == n % 256

\* Faulty variant (mutation analysis): the rewrite whatever which() says.
ResolveCommand_Always(cmd, found, shell) ==
    <<shell, "-i", "-c", CommandString(cmd)>>

\* "if not shutil.which(cmd_args[0])": the shell fallback.
ResolveCommand(cmd, found, shell) ==
    IF found THEN cmd ELSE <<shell, "-i", "-c", CommandString(cmd)>>

\* Faulty variant (mutation analysis): the file is left in place.
Unlink_Keep(file, ok) ==
    [file EXCEPT !.unlink = IF ok THEN "done" ELSE "failed"]

\* os.unlink(profile_path); a failure raises, and "except: pass" drops it.
Unlink(file, ok) ==
    IF ok THEN [file EXCEPT !.exists = FALSE, !.unlink = "done"]
    ELSE [file EXCEPT !.unlink = "failed"]

\* work_dir, home, generate_sandbox_profile(work_dir, home, agent or '').
MainGenerate ==
    /\ lpc = "parsed"
    /\ \E ssh_auth_sock \in LaunchSocks :
          LET o == LauncherOptions(options.mode, options.work_dir,
                                   options.agent, ssh_auth_sock)
          IN profile' = [work_dir |-> o.work_dir,
                         content |-> generate_sandbox_profile(
                                         o.work_dir, o.home, o.agent,
                                         o.ssh_auth_sock),
                         path |-> ""]
    /\ lpc' = "rendered"
    /\ UNCHANGED <<argv, idx, options, cmd_args, artifact, env, engine,
                   pending, exit, docVars, quoteVars, genVars, concVars>>

\* Faulty variant (mutation analysis): --dry-run is ignored.
DryRunRequested_Never(o) == FALSE

\* "if options['dry_run']"
DryRunRequested(o) == o.dry_run

\* Path.cwd() or Path.home() raises (the current directory is gone, no
\* home directory can be determined): the exception ends the process.
ResolutionFails ==
    /\ lpc = "parsed"
    /\ lpc' = "exited"
    /\ exit' = [by |-> "resolution_error", kind |-> "code", code |-> 1]
    /\ UNCHANGED <<argv, idx, options, cmd_args, profile, artifact, env,
                   engine, pending, docVars, quoteVars, genVars, concVars>>

\* --dry-run: print the profile and return.
DryRun ==
    /\ lpc = "rendered"
    /\ DryRunRequested(options)
    /\ lpc' = "exited"
    /\ exit' = [by |-> "dry_run", kind |-> "code", code |-> 0]
    /\ UNCHANGED <<argv, idx, options, cmd_args, profile, artifact, env,
                   engine, pending, docVars, quoteVars, genVars, concVars>>

\* with tempfile.NamedTemporaryFile(..., delete=False) as f: the file is
\* created, profile_path = f.name.
CreateTemp ==
    /\ lpc = "rendered"
    /\ ~DryRunRequested(options)
    /\ artifact' = [exists |-> TRUE, content |-> <<>>, unlink |-> "none"]
    /\ profile' = [profile EXCEPT !.path = TempPath]
    /\ lpc' = "created"
    /\ UNCHANGED <<argv, idx, options, cmd_args, env, engine, pending, exit,
                   docVars, quoteVars, genVars, concVars>>

\* f.write(profile_content), the with block ends, the try block begins.
WriteProfile ==
    /\ lpc = "created"
    /\ artifact' = [artifact EXCEPT !.content = profile.content]
    /\ lpc' = "written"
    /\ UNCHANGED <<argv, idx, options, cmd_args, profile, env, engine,
                   pending, exit, docVars, quoteVars, genVars, concVars>>

\* f.write raises (the disk is full): the with block is outside the try,
\* the exception ends the process.
WriteFails ==
    /\ lpc = "created"
    /\ lpc' = "exited"
    /\ exit' = [by |-> "write_error", kind |-> "code", code |-> 1]
    /\ UNCHANGED <<argv, idx, options, cmd_args, profile, artifact, env,
                   engine, pending, docVars, quoteVars, genVars, concVars>>

\* shutil.which(cmd_args[0]) and, when it finds nothing, the rewrite.
Resolving ==
    /\ lpc = "written"
    /\ \E found \in BOOLEAN, SHELL \in ShellValues :
          /\ env' = [found |-> IF found THEN "yes" ELSE "no",
                     shell |-> IF found THEN "unread" ELSE SHELL]
          /\ cmd_args' = ResolveCommand(cmd_args, found,
                                        environ_get(SHELL, "/bin/bash"))
    /\ lpc' = "resolved"
    /\ UNCHANGED <<argv, idx, options, profile, artifact, engine, pending,
                   exit, docVars, quoteVars, genVars, concVars>>

\* cmd = ['sandbox-exec', '-f', profile_path] + cmd_args; subprocess.run
\* starts the child.
InvokeEngine ==
    /\ lpc = "resolved"
    /\ engine' = [engine EXCEPT
                     !.cmd = <<"sandbox-exec", "-f", profile.path>> \o cmd_args,
                     !.child = [kind |-> "running", n |-> 0]]
    /\ lpc' = "executing"
    /\ UNCHANGED <<argv, idx, options, cmd_args, profile, artifact, env,
                   pending, exit, docVars, quoteVars, genVars, concVars>>

\* subprocess.run raises FileNotFoundError: there is no sandbox-exec.
EngineMissing ==
    /\ lpc = "resolved"
    /\ engine' = [engine EXCEPT
                     !.cmd = <<"sandbox-exec", "-f", profile.path>> \o cmd_args]
    /\ pending' = "FileNotFoundError"
    /\ lpc' = "finally"
    /\ UNCHANGED <<argv, idx, options, cmd_args, profile, artifact, env, exit,
                   docVars, quoteVars, genVars, concVars>>

\* The child ends; sys.exit(result.returncode) raises SystemExit.
ChildEnds ==
    /\ lpc = "executing"
    /\ \E outcome \in ChildOutcomes :
          engine' = [engine EXCEPT !.child = outcome,
                                   !.returncode = ReturnCode(outcome)]
    /\ pending' = "SystemExit"
    /\ lpc' = "finally"
    /\ UNCHANGED <<argv, idx, options, cmd_args, profile, artifact, env, exit,
                   docVars, quoteVars, genVars, concVars>>

\* Ctrl-C while the with block is open: KeyboardInterrupt is raised outside
\* the try block and ends the process (Python re-raises SIGINT on itself).
InterruptInWith ==
    /\ lpc = "created"
    /\ lpc' = "exited"
    /\ exit' = [by |-> "interrupt", kind |-> "signal", code |-> 2]
    /\ UNCHANGED <<argv, idx, options, cmd_args, profile, artifact, env,
                   engine, pending, docVars, quoteVars, genVars, concVars>>

\* Faulty variant (mutation analysis): the child is left running.
KillChild_LeaveRunning(e) == e

\* subprocess.run, on an exception while it waits: process.kill() and
\* process.wait(), then the exception goes on.
KillChild(e) ==
    IF e.child.kind = "running"
    THEN [e EXCEPT !.child = [kind |-> "signal", n |-> 9]]
    ELSE e

\* Ctrl-C inside the try block: KeyboardInterrupt goes through finally;
\* subprocess.run kills a running child on its way out.
InterruptInTry ==
    /\ lpc \in {"written", "resolved", "executing"}
    /\ pending' = "KeyboardInterrupt"
    /\ engine' = KillChild(engine)
    /\ lpc' = "finally"
    /\ UNCHANGED <<argv, idx, options, cmd_args, profile, artifact, env, exit,
                   docVars, quoteVars, genVars, concVars>>

\* SIGTERM: the launcher installs no handler, the process ends at once.
Terminated ==
    /\ lpc \in {"created", "written", "resolved", "executing", "finally"}
    /\ lpc' = "exited"
    /\ exit' = [by |-> "sigterm", kind |-> "signal", code |-> 15]
    /\ UNCHANGED <<argv, idx, options, cmd_args, profile, artifact, env,
                   engine, pending, docVars, quoteVars, genVars, concVars>>

\* How the process ends once finally is done with the exception in flight.
ExitOf(exc, returncode) ==
    IF exc = "SystemExit"
    THEN [by |-> "child", kind |-> "code", code |-> ExitStatus(returncode)]
    ELSE IF exc = "KeyboardInterrupt"
    THEN [by |-> "interrupt", kind |-> "signal", code |-> 2]
    ELSE [by |-> "exception", kind |-> "code", code |-> 1]

\* finally: os.unlink(profile_path) with its failure dropped, then the
\* exception in flight ends the process.
Cleanup ==
    /\ lpc = "finally"
    /\ \E ok \in BOOLEAN : artifact' = Unlink(artifact, ok)
    /\ exit' = ExitOf(pending, engine.returncode)
    /\ lpc' = "exited"
    /\ UNCHANGED <<argv, idx, options, cmd_args, profile, env, engine,
                   pending, docVars, quoteVars, genVars, concVars>>

LaunchNext ==
    \/ ScanSeparator \/ ScanHelp \/ ScanSwitch \/ ScanMissingValue
    \/ ScanMode \/ ScanValue \/ ScanUnknown \/ ScanCommand \/ ScanEnd
    \/ NoCommand \/ ParseReturn
    \/ MainGenerate \/ ResolutionFails \/ DryRun \/ CreateTemp \/ WriteProfile \/ WriteFails
    \/ Resolving \/ InvokeEngine \/ EngineMissing \/ ChildEnds
    \/ InterruptInWith \/ InterruptInTry \/ Terminated \/ Cleanup

LaunchSpec == LaunchInit /\ [][LaunchNext]_vars

(***************************************************************************)
(* The command string on its own: quoted by the launcher, read by the      *)
(* shell.                                                                  *)
(***************************************************************************)
\* Longest argument list quoted.
MaxQuoteArgs == 2

\* Arguments: plain, with a blank, with quotes of both kinds, with shell
\* metacharacters, with a backslash, and the empty string.
QuoteArgs ==
    {"ls", "a b", "it's", "say \"hi\"", "$HOME", "a;b|c&d", "back\\slash",
     "", "'", "*.py", "a  b "}

QuoteArgLists == UNION {[1..n -> QuoteArgs] : n \in 1..MaxQuoteArgs}

QuoteInit ==
    /\ DocIdle
    /\ LaunchIdle
    /\ GenIdle
    /\ ConcIdle
    /\ qpc = "idle"
    /\ qargs \in QuoteArgLists
    /\ qstring = ""
    /\ qwords = <<>>

\* cmd_string = ' '.join(shlex.quote(arg) for arg in cmd_args)
QuoteCommand ==
    /\ qpc = "idle"
    /\ qstring' = CommandString(qargs)
    /\ qpc' = "quoted"
    /\ UNCHANGED <<qargs, qwords, docVars, launchVars, genVars, concVars>>

\* shell -i -c cmd_string: the shell takes the string apart.
ShellReads ==
    /\ qpc = "quoted"
    /\ qwords' = ShellSplit(qstring)
    /\ qpc' = "split"
    /\ UNCHANGED <<qargs, qstring, docVars, launchVars, genVars, concVars>>

QuoteNext == QuoteCommand \/ ShellReads

QuoteSpec == QuoteInit /\ [][QuoteNext]_vars

(***************************************************************************)
(* Vocabulary of the launcher claims.                                      *)
(***************************************************************************)
Exited(by) == lpc = "exited" /\ exit.by = by

\* Where the command starts in argv once the scan has stopped at idx.
CmdStart == IF idx <= Len(argv) /\ argv[idx] = "--" THEN idx + 1 ELSE idx

\* The command as the tokens of argv spell it.
RawCommand == SubSeq(argv, CmdStart, Len(argv))

\* parse_args returned: the launcher is in main.
InMain ==
    \/ lpc \in {"parsed", "rendered", "created", "written", "resolved",
                "executing", "finally"}
    \/ lpc = "exited" /\ exit.by \notin {"help", "usage_error"}

\* The command parse_args returned, from argv and the resolved agent.
ParsedCommand ==
    IF options.agent = "claude" /\ Len(RawCommand) = 1
    THEN Append(RawCommand, ImplicitFlag)
    ELSE RawCommand

(***************************************************************************)
(* C13. Artifact cleanup on every exit path: once the profile file is      *)
(* written, whether the child exits 0, exits non-zero, or an exception is  *)
(* raised before the child starts, the file no longer exists when the      *)
(* launcher process has ended.                                             *)
(***************************************************************************)
C13_CleanupOnEveryExit ==
    (Exited("child") \/ Exited("exception")) => ~artifact.exists

\* C13 as the code has it: on each of these exit paths the deletion is
\* attempted, and the file no longer exists unless the deletion itself
\* failed (the failure is dropped).
C13_CleanupOnEveryExitAmended ==
    (Exited("child") \/ Exited("exception")) =>
        /\ artifact.unlink \in {"done", "failed"}
        /\ artifact.unlink = "done" => ~artifact.exists

C13_Witness ==
    /\ Exited("exception")
    /\ pending = "FileNotFoundError"
    /\ artifact.unlink = "done"
    /\ ~artifact.exists

(***************************************************************************)
(* C14. Artifact cleanup under interruption: when a keyboard interrupt or  *)
(* a termination signal ends the launcher at any point after the file was  *)
(* created, the file is deleted before the process ends.                   *)
(***************************************************************************)
C14_CleanupUnderInterruption ==
    (Exited("interrupt") \/ Exited("sigterm")) => ~artifact.exists

(***************************************************************************)
(* C15. Exit status propagation: for a child that exits with 0, with a     *)
(* non-zero code, or that a signal ends, the launcher's exit status is the *)
(* child's, whether or not the deletion of the file failed.                *)
(***************************************************************************)
C15_ExitStatusPropagation ==
    Exited("child") =>
        /\ exit.kind = (IF engine.child.kind = "signal" THEN "signal"
                        ELSE "code")
        /\ exit.code = engine.child.n

(***************************************************************************)
(* C16. Command resolution: when commandArgs[0] is found on the search     *)
(* path the command stays as parsed; when it is not, the command becomes   *)
(* [shell, "-i", "-c", quotedString] with shell the SHELL variable or      *)
(* /bin/bash when it is unset, once; the engine is invoked with            *)
(* [sandbox-exec, -f, artifactPath] followed by that command.              *)
(***************************************************************************)
C16_CommandResolution ==
    /\ (InMain /\ env.found = "unknown") => cmd_args = ParsedCommand
    /\ (InMain /\ env.found = "yes") => cmd_args = ParsedCommand
    /\ (InMain /\ env.found = "no") =>
          cmd_args = <<IF env.shell = Unset THEN "/bin/bash" ELSE env.shell,
                       "-i", "-c", CommandString(ParsedCommand)>>
    /\ engine.cmd # <<>> =>
          /\ env.found # "unknown"
          /\ engine.cmd = <<"sandbox-exec", "-f", TempPath>> \o cmd_args
          /\ profile.path = TempPath

C16_Witness ==
    /\ lpc = "executing"
    /\ env.found = "no"
    /\ env.shell = Unset
    /\ argv = <<"--verbose", "echo", "--help">>
    /\ engine.cmd = <<"sandbox-exec", "-f", TempPath, "/bin/bash", "-i", "-c",
                      "echo --help">>

(***************************************************************************)
(* C17. Shell-fallback quoting round trip: the command string placed after *)
(* -c, split by the shell's quoting rules, gives back the original         *)
(* argument list: the same arguments, in order, and as many.               *)
(***************************************************************************)
C17_QuoteRoundTrip == qpc = "split" => qwords = qargs

C17_Witness ==
    /\ qpc = "split"
    /\ qargs = <<"it's", "a  b ">>
    /\ qstring = "'it'\"'\"'s' 'a  b '"
    /\ qwords = qargs

(***************************************************************************)
(* C18. The implicit flag: parse_args appends                              *)
(* --dangerously-skip-permissions exactly when the resolved agent is       *)
(* claude (given by --agent, or detected from the command name) and the    *)
(* command has no further argument; otherwise the command is returned as   *)
(* it was; never more than one flag is appended.                           *)
(***************************************************************************)
C18_ImplicitFlag ==
    [][(lpc = "scanned" /\ lpc' = "parsed") =>
          LET claude == \/ options.agent = "claude"
                        \/ options.agent = "" /\ cmd_args[1] = "claude"
          IN /\ (options'.agent = "claude") <=> claude
             /\ cmd_args' = IF claude /\ Len(cmd_args) = 1
                            THEN cmd_args \o <<ImplicitFlag>>
                            ELSE cmd_args]_vars

C18_Witness ==
    /\ lpc = "parsed"
    /\ argv = <<"--verbose", "--", "claude">>
    /\ options.agent = "claude"
    /\ cmd_args = <<"claude", ImplicitFlag>>

(***************************************************************************)
(* C19. Exit codes of argument handling: scanning left to right, --help or *)
(* -h ends the process with 0; --mode, --agent or --work-dir without a     *)
(* value, a mode outside strict/balanced/permissive, an unknown option     *)
(* starting with "-", and no command at all end it with 1; the first such  *)
(* token reached decides.                                                  *)
(***************************************************************************)
\* The first token, from k on, that is not an option with its value: the
\* command, "--", a help token, an error, or the end of argv.
RECURSIVE FirstStop(_, _)
FirstStop(args, k) ==
    IF k > Len(args) THEN k
    ELSE IF args[k] \in {"--verbose", "--dry-run"} THEN FirstStop(args, k + 1)
    ELSE IF /\ args[k] \in {"--mode", "--agent", "--work-dir"}
            /\ k < Len(args)
            /\ args[k] = "--mode" => args[k + 1] \in MODES
         THEN FirstStop(args, k + 2)
    ELSE k

HelpAt(k) == k <= Len(argv) /\ argv[k] \in {"--help", "-h"}

ArgumentErrorAt(k) ==
    \/ k > Len(argv)
    \/ argv[k] = "--" /\ k = Len(argv)
    \/ argv[k] \in {"--mode", "--agent", "--work-dir"} /\ k = Len(argv)
    \/ argv[k] = "--mode" /\ k < Len(argv) /\ argv[k + 1] \notin MODES
    \/ /\ StartsWith(argv[k], "-")
       /\ argv[k] \notin {"--", "--help", "-h", "--verbose", "--dry-run",
                          "--mode", "--agent", "--work-dir"}

C19_ArgumentExitCodes ==
    LET k == FirstStop(argv, 1) IN
    /\ (lpc = "exited" \/ InMain) =>
          /\ HelpAt(k) <=> Exited("help")
          /\ ArgumentErrorAt(k) <=> Exited("usage_error")
    /\ Exited("help") => exit.kind = "code" /\ exit.code = 0
    /\ Exited("usage_error") => exit.kind = "code" /\ exit.code = 1

C19_Witness ==
    /\ argv = <<"--verbose", "-x", "--help">>
    /\ Exited("usage_error")
    /\ exit.code = 1

(***************************************************************************)
(* C20. The command boundary: the tokens after "--", and the tokens from   *)
(* the first non-option token on, are returned as the command, verbatim    *)
(* and in order, and are never read as launcher options.                   *)
(***************************************************************************)
\* The positions of argv that the scan, from k on, reads as options.
RECURSIVE OptionPositions(_, _)
OptionPositions(args, k) ==
    IF k >= FirstStop(args, k) THEN {}
    ELSE IF args[k] \in {"--verbose", "--dry-run"}
         THEN {k} \cup OptionPositions(args, k + 1)
         ELSE {k} \cup OptionPositions(args, k + 2)

ReadAsOption(name) == \E j \in OptionPositions(argv, 1) : argv[j] = name

ReadWithValue(name, value) ==
    \E j \in OptionPositions(argv, 1) : argv[j] = name /\ argv[j + 1] = value

C20_CommandBoundary ==
    /\ (lpc = "scanned" /\ idx <= Len(argv)) =>
          /\ cmd_args = RawCommand
          /\ argv[idx] = "--" \/ ~StartsWith(argv[idx], "-")
    /\ (InMain /\ env.found \in {"unknown", "yes"}) =>
          /\ Len(cmd_args) >= Len(RawCommand)
          /\ SubSeq(cmd_args, 1, Len(RawCommand)) = RawCommand
    /\ (lpc = "scanned" \/ InMain) =>
          /\ idx = FirstStop(argv, 1)
          /\ options.verbose <=> ReadAsOption("--verbose")
          /\ options.dry_run <=> ReadAsOption("--dry-run")
          /\ options.mode # "balanced" => ReadWithValue("--mode", options.mode)
          /\ options.work_dir # "" =>
                ReadWithValue("--work-dir", options.work_dir)
    /\ Exited("help") => idx = FirstStop(argv, 1)

C20_Witness ==
    /\ lpc = "parsed"
    /\ argv = <<"echo", "--verbose", "--help">>
    /\ cmd_args = argv
    /\ options = DefaultOptions

(***************************************************************************)
(* The generator program (generator.py main): the working-directory        *)
(* prompt, dry run, save, validate_syntax.  It is run twice in a row, the  *)
(* second time with the same arguments up to --dry-run and --allow-git.    *)
(***************************************************************************)
\* The directories that exist on the host.
ExistingDirs == {"/", Home, Cwd, Cwd \o "/strict"}

\* Path.exists()
Exists(path) == path \in ExistingDirs

\* -o/--output: the default.
DefaultOutput == "~/.agent-sandbox.sb"

GenArgs ==
    [output : {DefaultOutput}, mode : MODES, work_dir : WorkDirArgs \ {""},
     allowed_paths : AllowedLists, allow_git : BOOLEAN,
     allow_rc_read : BOOLEAN, allow_env_read : BOOLEAN, dry_run : BOOLEAN]

\* What the user types at the prompt.
Typed == {"y", " Yes ", "n", "maybe", ""}

\* str.lower() on the letters typed.
LowerCh(c) ==
    CASE c = "Y" -> "y" [] c = "E" -> "e" [] c = "S" -> "s" [] c = "N" -> "n"
      [] OTHER -> c

RECURSIVE Lower(_)
Lower(t) == IF t = "" THEN "" ELSE LowerCh(Ch(t, 1)) \o Lower(SubSeq(t, 2, Len(t)))

\* str.strip()
RECURSIVE Strip(_)
Strip(t) ==
    IF t = "" THEN ""
    ELSE IF Ch(t, 1) = " " THEN Strip(SubSeq(t, 2, Len(t)))
    ELSE IF Ch(t, Len(t)) = " " THEN Strip(SubSeq(t, 1, Len(t) - 1))
    ELSE t

\* SandboxProfileGenerator(...) from the parsed arguments.
GeneratorOf(a) ==
    GeneratorOptions(a.mode, a.work_dir, a.allowed_paths, a.allow_git,
                     a.allow_rc_read, a.allow_env_read)

\* How the engine's syntax check can run: exit codes, a fatal signal, the
\* 5 s timeout, no sandbox-exec on the search path, another OS error.
CheckOutcomes ==
    {[kind |-> "exit", n |-> 0], [kind |-> "exit", n |-> 1],
     [kind |-> "exit", n |-> 65], [kind |-> "signal", n |-> 6],
     [kind |-> "timeout", n |-> 0], [kind |-> "not_found", n |-> 0],
     [kind |-> "os_error", n |-> 0]}

\* Faulty variant (mutation analysis): a check that could not run passes.
validate_syntax_AssumeValid(outcome) ==
    IF outcome.kind \in {"exit", "signal"}
    THEN (IF ReturnCode(outcome) = 0 THEN "True" ELSE "False")
    ELSE "True"

\* validate_syntax: "True", "False", or "raise" for an exception it does
\* not catch.
validate_syntax(outcome) ==
    IF outcome.kind \in {"exit", "signal"}
    THEN (IF ReturnCode(outcome) = 0 THEN "True" ELSE "False")
    ELSE IF outcome.kind \in {"timeout", "not_found"} THEN "False"
    ELSE "raise"

\* Faulty variant (mutation analysis): the file gets the base rules only.
save_BaseOnly(o) ==
    [exists |-> TRUE, content |-> generate_base_rules, mode |-> "0644"]

\* save: generate(), mkdir, write_text, chmod(0o644).
save(o) == [exists |-> TRUE, content |-> generate(o), mode |-> "0644"]

GenExit(by, code) ==
    /\ gexit' = [gexit EXCEPT ![grun] = [by |-> by, code |-> code]]
    /\ gpc' = "exited"

GenInit ==
    /\ DocIdle
    /\ LaunchIdle
    /\ QuoteIdle
    /\ ConcIdle
    /\ gpc = "start"
    /\ grun = 1
    /\ \E a \in GenArgs : gargs = [r \in Runs |-> IF r = 1 THEN a ELSE NoGenArgs]
    /\ gresponse = ""
    /\ gstdout = [r \in Runs |-> <<>>]
    /\ gfile = NoFile
    /\ gcheck = NoCheck
    /\ gexit = [r \in Runs |-> NoGenExit]

genFrame == <<docVars, launchVars, quoteVars, concVars>>

\* main: "if not work_dir.exists()" on the expanded --work-dir.
ValidateWorkDir ==
    /\ gpc = "start"
    /\ gpc' = IF Exists(Resolve(ExpandUser(gargs[grun].work_dir)))
              THEN "checked" ELSE "asked"
    /\ UNCHANGED <<grun, gargs, gresponse, gstdout, gfile, gcheck, gexit,
                   genFrame>>

\* main: the warning, input("Continue anyway? (y/N) ").strip().lower().
Answer ==
    /\ gpc = "asked"
    /\ \E typed \in Typed :
          LET response == Lower(Strip(typed))
          IN /\ gresponse' = response
             /\ IF response \notin {"y", "yes"}
                THEN GenExit("declined", 1)
                ELSE gpc' = "checked" /\ UNCHANGED gexit
    /\ UNCHANGED <<grun, gargs, gstdout, gfile, gcheck, genFrame>>

\* main: the generator is built; --dry-run prints generate() and returns.
GenDryRun ==
    /\ gpc = "checked"
    /\ gargs[grun].dry_run
    /\ gstdout' = [gstdout EXCEPT ![grun] = generate(GeneratorOf(gargs[grun]))]
    /\ GenExit("dry_run", 0)
    /\ UNCHANGED <<grun, gargs, gresponse, gfile, gcheck, genFrame>>

\* main: print_summary, save.
GenSave ==
    /\ gpc = "checked"
    /\ ~gargs[grun].dry_run
    /\ gfile' = save(GeneratorOf(gargs[grun]))
    /\ gpc' = "saved"
    /\ UNCHANGED <<grun, gargs, gresponse, gstdout, gcheck, gexit, genFrame>>

\* main: generator.validate_syntax() runs the engine on the saved file.
GenValidate ==
    /\ gpc = "saved"
    /\ \E outcome \in CheckOutcomes :
          LET result == validate_syntax(outcome)
          IN /\ gcheck' = [ran |-> TRUE, outcome |-> outcome, result |-> result]
             /\ IF result = "raise"
                THEN GenExit("exception", 1)
                ELSE gpc' = "validated" /\ UNCHANGED gexit
    /\ UNCHANGED <<grun, gargs, gresponse, gstdout, gfile, genFrame>>

\* main: "All set!" and the end of main, or the warning and sys.exit(1).
GenFinish ==
    /\ gpc = "validated"
    /\ IF gcheck.result = "True" THEN GenExit("ok", 0) ELSE GenExit("invalid", 1)
    /\ UNCHANGED <<grun, gargs, gresponse, gstdout, gfile, gcheck, genFrame>>

\* The program is started a second time on the same host.
GenAgain ==
    /\ gpc = "exited"
    /\ grun = 1
    /\ grun' = 2
    /\ \E dry_run \in BOOLEAN, allow_git \in BOOLEAN :
          gargs' = [gargs EXCEPT ![2] = [gargs[1] EXCEPT
                                            !.dry_run = dry_run,
                                            !.allow_git = allow_git]]
    /\ gpc' = "start"
    /\ gresponse' = ""
    /\ gcheck' = NoCheck
    /\ UNCHANGED <<gstdout, gfile, gexit, genFrame>>

GenNext ==
    \/ ValidateWorkDir \/ Answer \/ GenDryRun \/ GenSave \/ GenValidate
    \/ GenFinish \/ GenAgain

GenSpec == GenInit /\ [][GenNext]_vars

(***************************************************************************)
(* C21. Validator safe degradation: validate_syntax says valid only when   *)
(* the engine's check exits with 0; a non-zero exit, a timeout and a       *)
(* missing engine binary each give invalid, and none of them leaves        *)
(* validate_syntax as an exception.                                        *)
(***************************************************************************)
C21_ValidatorDegradesSafely ==
    gcheck.ran =>
        /\ (gcheck.result = "True") <=>
              (gcheck.outcome.kind = "exit" /\ gcheck.outcome.n = 0)
        /\ (\/ gcheck.outcome.kind \in {"timeout", "not_found", "signal"}
            \/ gcheck.outcome.kind = "exit" /\ gcheck.outcome.n # 0)
           => /\ gcheck.result = "False"
              /\ gpc = "exited" => gexit[grun].by = "invalid"

C21_Witness ==
    /\ gpc = "exited"
    /\ gcheck.outcome.kind = "timeout"
    /\ gcheck.result = "False"
    /\ gexit[grun] = [by |-> "invalid", code |-> 1]

(***************************************************************************)
(* C22. Fail fast on an unresolvable working directory: when the requested *)
(* working directory does not resolve to an existing absolute path, no     *)
(* document is produced: the launcher writes no artifact and invokes no    *)
(* engine (and the generator neither prints nor writes one, whatever is    *)
(* answered at its prompt).                                                *)
(***************************************************************************)
C22_FailFastOnWorkDir ==
    (profile.work_dir # "" /\ ~Exists(profile.work_dir)) =>
        /\ profile.content = <<>>
        /\ artifact = NoArtifact
        /\ engine = NoEngine

(***************************************************************************)
(* C23. Determinism and dry-run round trip: two runs of the generator with *)
(* the same arguments (mode, working directory, extra-allow paths,         *)
(* toggles) on the same host produce the same document, and the document   *)
(* --dry-run prints is the content a run without --dry-run writes to the   *)
(* output file.                                                            *)
(***************************************************************************)
SameInputs ==
    [gargs[1] EXCEPT !.dry_run = FALSE] = [gargs[2] EXCEPT !.dry_run = FALSE]

Printed(r) == gstdout[r] # <<>>

C27_ValidationFailureOutcome ==
    (gpc = "exited" /\ gexit[grun].by = "invalid") =>
        /\ gexit[grun].code = 1
        /\ ~gfile.exists

(***************************************************************************)
(* Launcher processes side by side on one host (cli.py main, from the      *)
(* temporary file to its deletion), sharing the temporary directory.  The  *)
(* profile of process p is written p.                                      *)
(***************************************************************************)
\* Faulty variant (mutation analysis): a name is taken whether or not a
\* file has it.
FreshNames_Any(dir) == TempNames

\* tempfile opens the file with O_CREAT | O_EXCL and draws another name
\* when one is taken: the names it can return.
FreshNames(dir) == {n \in TempNames : ~dir[n].exists}

ConcInit ==
    /\ DocIdle
    /\ LaunchIdle
    /\ QuoteIdle
    /\ GenIdle
    /\ cpc = [p \in Procs |-> "ready"]
    /\ cpath = [p \in Procs |-> ""]
    /\ cengine = [p \in Procs |-> ""]
    /\ tmpdir = [n \in TempNames |-> NoTempFile]

concFrame == <<docVars, launchVars, quoteVars, genVars>>

\* with tempfile.NamedTemporaryFile(..., delete=False) as f; profile_path
ConcCreate(p) ==
    /\ cpc[p] = "ready"
    /\ \E n \in FreshNames(tmpdir) :
          /\ tmpdir' = [tmpdir EXCEPT ![n] = [exists |-> TRUE, owner |-> p,
                                              content |-> 0]]
          /\ cpath' = [cpath EXCEPT ![p] = n]
    /\ cpc' = [cpc EXCEPT ![p] = "created"]
    /\ UNCHANGED <<cengine, concFrame>>

\* f.write(profile_content)
ConcWrite(p) ==
    /\ cpc[p] = "created"
    /\ tmpdir' = [tmpdir EXCEPT ![cpath[p]].content = p]
    /\ cpc' = [cpc EXCEPT ![p] = "written"]
    /\ UNCHANGED <<cpath, cengine, concFrame>>

\* subprocess.run(['sandbox-exec', '-f', profile_path] + cmd_args) starts.
ConcInvoke(p) ==
    /\ cpc[p] = "written"
    /\ cengine' = [cengine EXCEPT ![p] = cpath[p]]
    /\ cpc' = [cpc EXCEPT ![p] = "executing"]
    /\ UNCHANGED <<cpath, tmpdir, concFrame>>

\* The child ends, sys.exit(result.returncode) enters finally.
ConcChildEnds(p) ==
    /\ cpc[p] = "executing"
    /\ cpc' = [cpc EXCEPT ![p] = "finally"]
    /\ UNCHANGED <<cpath, cengine, tmpdir, concFrame>>

\* finally: os.unlink(profile_path), its failure dropped.
ConcCleanup(p) ==
    /\ cpc[p] = "finally"
    /\ \E ok \in BOOLEAN :
          tmpdir' = IF ok THEN [tmpdir EXCEPT ![cpath[p]] = NoTempFile]
                    ELSE tmpdir
    /\ cpc' = [cpc EXCEPT ![p] = "done"]
    /\ UNCHANGED <<cpath, cengine, concFrame>>

ConcNext ==
    \E p \in Procs :
        \/ ConcCreate(p) \/ ConcWrite(p) \/ ConcInvoke(p)
        \/ ConcChildEnds(p) \/ ConcCleanup(p)

ConcSpec == ConcInit /\ [][ConcNext]_vars

(***************************************************************************)
(* C24. Concurrent launches do not share artifacts: under every            *)
(* interleaving each launch has exactly one artifact, at a path no other   *)
(* live launch has; each engine invocation names its own launch's          *)
(* artifact; the cleanup of one launch never deletes or overwrites the     *)
(* artifact of a launch whose child is still executing.                    *)
(***************************************************************************)
Live(p) == cpc[p] \in {"created", "written", "executing", "finally"}

C24_NoSharedArtifact ==
    /\ \A p \in Procs, q \in Procs :
          (Live(p) /\ Live(q) /\ p # q) => cpath[p] # cpath[q]
    /\ \A p \in Procs :
          Live(p) => {n \in TempNames : tmpdir[n].exists /\ tmpdir[n].owner = p}
                        = {cpath[p]}
    /\ \A p \in Procs :
          cpc[p] = "executing" =>
              /\ cengine[p] = cpath[p]
              /\ tmpdir[cengine[p]] = [exists |-> TRUE, owner |-> p,
                                       content |-> p]

C24_Witness ==
    /\ cpc[1] = "executing"
    /\ cpc[2] = "done"
    /\ cpath[2] # ""
    /\ tmpdir[cpath[1]] = [exists |-> TRUE, owner |-> 1, content |-> 1]

(***************************************************************************)
(* C25. Forwarding-socket carve-out: when SSH_AUTH_SOCK is a non-empty     *)
(* path the launcher's document has exactly one Allow of read, write and   *)
(* ioctl on Literal(socket), and read, write and ioctl on the socket       *)
(* resolve to Allow wherever the socket lies; when the variable is unset   *)
(* or empty there is no such directive.                                    *)
(***************************************************************************)
SocketDirectives(d, sock) ==
    {k \in 1..Len(d) : /\ d[k].action = "allow"
                       /\ d[k].ops = AllOps
                       /\ \E n \in 1..Len(d[k].patterns) :
                             d[k].patterns[n].kind = "literal"}

C25_SocketCarveOut ==
    (tool = "launcher") =>
        /\ Cardinality(SocketDirectives(doc, opts.ssh_auth_sock))
              = (IF opts.ssh_auth_sock # "" THEN 1 ELSE 0)
        /\ \A k \in SocketDirectives(doc, opts.ssh_auth_sock) :
              doc[k].patterns = <<Literal(opts.ssh_auth_sock)>>
        /\ (/\ pc = "probed"
            /\ opts.ssh_auth_sock # ""
            /\ probePath = opts.ssh_auth_sock)
           => decision = "allow"

(***************************************************************************)
(* C26. The artifact's lifetime covers the child: the engine is invoked    *)
(* only after the artifact is completely written and the command resolved; *)
(* the launcher waits until the child has ended; the artifact is on disk   *)
(* in every state from the invocation to the child's end; the deletion     *)
(* never precedes the child's end.                                         *)
(***************************************************************************)
ChildRunning == engine.child.kind = "running"

C26_ArtifactCoversChild ==
    /\ engine.cmd # <<>> =>
          /\ profile.content # <<>>
          /\ artifact.content = profile.content
          /\ env.found # "unknown"
    /\ ChildRunning =>
          /\ artifact.exists
          /\ artifact.content = profile.content
          /\ artifact.unlink = "none"
          /\ lpc = "executing" \/ Exited("sigterm")
    /\ (lpc = "finally" \/ artifact.unlink # "none") => ~ChildRunning

C26_Witness ==
    /\ lpc = "executing"
    /\ ChildRunning
    /\ artifact.exists
    /\ artifact.content = profile.content
    /\ engine.cmd = <<"sandbox-exec", "-f", TempPath, "echo">>

(***************************************************************************)
(* C28. The launcher's dry run has no side effects: with --dry-run and a   *)
(* command, the launcher prints the document and ends with status 0; it    *)
(* creates no artifact, neither resolves nor rewrites the command, and     *)
(* does not invoke the engine.                                             *)
(***************************************************************************)
C28_DryRunNoSideEffects ==
    (options.dry_run /\ InMain) =>
        /\ lpc \in {"parsed", "rendered", "exited"}
        /\ artifact = NoArtifact
        /\ profile.path = ""
        /\ env = NoEnv
        /\ cmd_args = ParsedCommand
        /\ engine = NoEngine
        /\ lpc = "exited" =>
              \/ /\ exit = [by |-> "dry_run", kind |-> "code", code |-> 0]
                 /\ profile.content # <<>>
              \/ exit.by = "resolution_error"

C28_Witness ==
    /\ Exited("dry_run")
    /\ argv = <<"--dry-run", "echo", "--verbose">>
    /\ exit.code = 0
    /\ artifact = NoArtifact
    /\ engine = NoEngine

(***************************************************************************)
(* C30. Argument errors and help never reach the launch: every step of     *)
(* parse_args' loop consumes at least one token or ends the scan; when the *)
(* launcher ends in help or an argument error, or because the home or      *)
(* working directory cannot be established, no artifact was created and    *)
(* the engine was not invoked.                                             *)
(***************************************************************************)
C30_ErrorsNeverReachLaunch ==
    [][/\ lpc = "parse" => (idx' > idx \/ lpc' # "parse")
       /\ lpc' = "parse" => idx' <= Len(argv') + 1
       /\ (/\ lpc' = "exited"
           /\ exit'.by \in {"help", "usage_error", "resolution_error"})
          => /\ artifact' = NoArtifact
             /\ profile'.path = ""
             /\ engine' = NoEngine]_vars

C30_Witness ==
    /\ Exited("usage_error")
    /\ argv = <<"--verbose", "--dry-run", "--mode">>
    /\ idx = 3
    /\ artifact = NoArtifact

(***************************************************************************)
(* C29. Extra-allow paths override the mode layer but not the sensitive    *)
(* layer: in the generator's strict and balanced documents, for every      *)
(* extra-allow path P and every path under P, read and write resolve to    *)
(* Allow when the path matches no pattern of the sensitive-protection      *)
(* layer (also when P lies under home outside the working directory), and  *)
(* to Deny when the path matches the layer's deny patterns.                *)
(***************************************************************************)
UnderExtraAllow(p) ==
    \E k \in 1..Len(opts.allowed_paths) : IsSubpath(opts.allowed_paths[k], p)

SensitiveDenies(d, p, op) ==
    \E k \in 1..Len(d) :
        d[k].layer = "sensitive" /\ d[k].action = "deny" /\ DirMatches(d[k], p, op)

C29_ExtraAllowScope ==
    (/\ Probed("generator")
     /\ opts.mode \in {"strict", "balanced"}
     /\ probeOp \in RW
     /\ UnderExtraAllow(probePath))
    => /\ ~LayerMatches(doc, "sensitive", probePath) => decision = "allow"
       /\ SensitiveDenies(doc, probePath, probeOp) => decision = "deny"

====
